---------------------------- MODULE Spec2Model ----------------------------
(***************************************************************************)
(* A model of biblio-bridge: the metadata fetchers (biblio-bridge.py and   *)
(* openalex.py), the batch fetch scheduler (openalex.py), the two-level    *)
(* citation crawl (the script part of biblio-bridge.py) and the similarity *)
(* network builder (context_extract.py).                                   *)
(*                                                                         *)
(* Identifiers are numbers: 0 is the seed DOI, 1..MaxWorks are the work    *)
(* URIs "https://openalex.org/W<n>".  The DOI resolves to work 1.          *)
(***************************************************************************)
EXTENDS Integers, Sequences, FiniteSets, TLC

(***************************************************************************)
(* Bounds of the model.                                                    *)
(***************************************************************************)
\* The number of works the provider knows.
MaxWorks == 3
\* The longest reference list of the seed record.
MaxSeedRefs == 2
\* The longest reference list of any other record.
MaxRefs == 1

\* biblio-bridge.py line 98: the seed DOI, identifier 0 of the model.
doi == 0

WorkIds == 1..MaxWorks
Identifiers == {doi} \cup WorkIds

\* The work a lookup of an identifier resolves to at the provider.
Resolve(identifier) == IF identifier = doi THEN 1 ELSE identifier

\* All reference lists a provider record may carry (repeats allowed).
RefLists == UNION {[1..n -> WorkIds] : n \in 0..MaxRefs}
SeedRefLists == UNION {[1..n -> WorkIds] : n \in 0..MaxSeedRefs}

Range(s) == {s[i] : i \in 1..Len(s)}

(***************************************************************************)
(* The provider's answer to one HTTP GET.                                  *)
(*   kind   "timeout"     the request timed out                            *)
(*          "transport"   connection failure                               *)
(*          "badstatus"   raise_for_status() raises                        *)
(*          "badjson"     undecodable body, the decoder raises ValueError  *)
(*          "badjson_req" undecodable body, the decoder's exception is     *)
(*                        also a RequestException (requests >= 2.27)       *)
(*          "json"        a decodable body                                 *)
(*   shape  "work"        a dict with "id" (works-by-id endpoint)          *)
(*          "results"     a dict whose "results" list starts with a work   *)
(*          "emptyresults" a dict with "results": []                       *)
(*          "noresults"   a dict with neither "id" nor "results"           *)
(*          "notdict"     a JSON list                                      *)
(* A field of the work is "missing", "null" or a value.                    *)
(***************************************************************************)
FailureKinds == {"timeout", "transport", "badstatus", "badjson", "badjson_req"}

NoWork == [wid |-> 0, title |-> "missing", abstract |-> "missing",
           authorships |-> "missing", topic |-> "missing",
           refs_st |-> "missing", refs |-> <<>>]

Failure(kind) == [kind |-> kind, shape |-> "none", work |-> NoWork]

Body(shape, work) == [kind |-> "json", shape |-> shape, work |-> work]

TitleFields == {"missing", "null", "A title"}
AbstractFields == {"missing", "null", "empty", "index"}
\* "nullauthor": an authorship entry {"author": null}
AuthorshipFields == {"missing", "null", "empty", "list", "nullauthor"}
TopicFields == {"missing", "null", "dict"}
RefStates == {"missing", "null", "list"}

WorkBodies ==
    { [wid |-> w, title |-> t, abstract |-> a, authorships |-> au,
       topic |-> tp, refs_st |-> rs, refs |-> r] :
        w \in WorkIds, t \in TitleFields, a \in AbstractFields,
        au \in AuthorshipFields, tp \in TopicFields,
        rs \in RefStates, r \in RefLists }

\* A well-formed work: the list of references is carried only when present.
WellFormed(work) == work.refs_st = "list" \/ work.refs = <<>>

Responses ==
    {Failure(k) : k \in FailureKinds}
    \cup {Body(s, NoWork) : s \in {"emptyresults", "noresults", "notdict"}}
    \cup {Body(s, w) : s \in {"work", "results"},
                       w \in {x \in WorkBodies : WellFormed(x)}}

(***************************************************************************)
(* Results of a fetch.  tag is "record", "error" or "raise" (an exception  *)
(* leaves the function).  error is <<message, identifier>> for an error    *)
(* result and <<>> otherwise; exc names the exception of a raise.          *)
(* "None" stands for Python's None.                                        *)
(***************************************************************************)
NoRecord == [id |-> 0, title |-> "", abstract |-> "", authors |-> "",
             topic |-> "", refs_st |-> "", refs |-> <<>>]

ErrorResult(message, identifier) ==
    [tag |-> "error", error |-> <<message, identifier>>, exc |-> "",
     rec |-> NoRecord]

Raise(exc) == [tag |-> "raise", error |-> <<>>, exc |-> exc, rec |-> NoRecord]

WorkRecord(rec) == [tag |-> "record", error |-> <<>>, exc |-> "", rec |-> rec]

IsError(result) == result.tag = "error"
IsRaise(result) == result.tag = "raise"
IsRecord(result) == result.tag = "record"


(***************************************************************************)
(* biblio-bridge.py, fetch_openalex_data (the synchronous fetcher).        *)
(***************************************************************************)
\* lines 37-47: the abstract rebuilt from the inverted index, or the sentinel.
SyncAbstract(work) ==
    IF work.abstract = "index" THEN "reconstructed text"
    ELSE "No abstract available"

\* line 60: work_data.get("title", "No title available"); a null title is kept.
SyncTitle(work) ==
    CASE work.title = "missing" -> "No title available"
      [] work.title = "null" -> "None"
      [] OTHER -> work.title

\* lines 65-68 and the AttributeError fallback of lines 71-85.
SyncTopic(work) ==
    IF work.topic = "dict" THEN "topic names" ELSE "Unknown"

\* lines 69/84: work_data.get("referenced_works", []); a null list is kept.
SyncRefsState(work) == IF work.refs_st = "null" THEN "None" ELSE "list"

\* lines 36-86: the decoded work turned into a record, an error or a raise.
SyncFromWork(identifier, work) ==
    CASE work.authorships = "null" -> Raise("TypeError")
      [] work.authorships = "nullauthor" -> Raise("AttributeError")
      [] work.authorships \in {"missing", "empty"} ->
            ErrorResult("No authors available for", identifier)
      [] OTHER ->
            WorkRecord([id |-> work.wid, title |-> SyncTitle(work),
                        abstract |-> SyncAbstract(work), authors |-> "names",
                        topic |-> SyncTopic(work),
                        refs_st |-> SyncRefsState(work), refs |-> work.refs])

\* lines 29-95.
fetch_openalex_data(identifier, resp) ==
    CASE resp.kind = "timeout" ->
            ErrorResult("Request timed out after 10 seconds for", identifier)
      [] resp.kind \in {"transport", "badstatus", "badjson_req"} ->
            ErrorResult("API request failed for", identifier)
      [] resp.kind = "badjson" ->
            ErrorResult("Invalid JSON response for", identifier)
      [] resp.shape = "notdict" -> Raise("AttributeError")
      [] resp.shape \in {"emptyresults", "noresults"} ->
            ErrorResult("No results found for", identifier)
      [] OTHER -> SyncFromWork(identifier, resp.work)

(***************************************************************************)
(* openalex.py, fetch_single (the fetcher of the batch scheduler).  Every  *)
(* exception raised inside its try block, lines 18-64, is caught at line   *)
(* 65 and returned as an error result.                                     *)
(***************************************************************************)
Caught(identifier) == ErrorResult("Failed to fetch", identifier)

\* lines 29-36.
AsyncAbstract(work) ==
    IF work.abstract = "index" THEN "reconstructed text"
    ELSE "No abstract available"

\* lines 24-64, for a decoded work.
AsyncFromWork(identifier, work) ==
    CASE work.title = "null" -> Caught(identifier)
      [] work.authorships \in {"null", "nullauthor"} -> Caught(identifier)
      [] OTHER ->
            WorkRecord([id |-> work.wid,
                        title |-> IF work.title = "missing"
                                  THEN "No title available" ELSE work.title,
                        abstract |-> AsyncAbstract(work),
                        authors |-> IF work.authorships = "list"
                                    THEN "names" ELSE "[]",
                        topic |-> IF work.topic = "dict"
                                  THEN "topic names" ELSE "Unknown",
                        refs_st |-> IF work.refs_st = "null"
                                    THEN "None" ELSE "list",
                        refs |-> work.refs])

\* lines 8-66.
fetch_single(identifier, resp) ==
    CASE resp.kind # "json" -> Caught(identifier)
      [] resp.shape \in {"notdict", "emptyresults"} -> Caught(identifier)
      [] resp.shape = "noresults" -> ErrorResult("No results for", identifier)
      [] OTHER -> AsyncFromWork(identifier, resp.work)

(***************************************************************************)
(* The crawl: the script of biblio-bridge.py, lines 97-157.                *)
(*   pc                       "start", "dl0" (first-level loop), "dl1"     *)
(*                            (second-level loop), "done", "aborted"       *)
(*                            (exit() of line 105), "crashed" (an uncaught *)
(*                            exception ended the script)                   *)
(*   initial_data             the seed's fetch result                      *)
(*   referenced_ids, processed_ids, second_level_refs,                     *)
(*   unique_second_level_refs the script's variables of these names        *)
(*   idx                      the position of the running for loop         *)
(*   fetched                  every identifier a GET was issued for, in    *)
(*                            order                                        *)
(*   writes                   every file written, <<namespace, identifier>>*)
(*   reported                 the error printed at line 104                *)
(*   uncaught                 the exception that ended the script, "" when *)
(*                            none did                                     *)
(*   emitted_refs             the identifiers in the reference lists of    *)
(*                            the records the first-level loop fetched     *)
(*                            successfully (kept for the properties)       *)
(***************************************************************************)
VARIABLES pc, initial_data, referenced_ids, processed_ids, second_level_refs,
          unique_second_level_refs, idx, fetched, writes, reported, uncaught,
          emitted_refs

crawlVars == <<pc, initial_data, referenced_ids, processed_ids,
               second_level_refs, unique_second_level_refs, idx, fetched,
               writes, reported, uncaught, emitted_refs>>

NoResult == [tag |-> "none", error |-> <<>>, exc |-> "", rec |-> NoRecord]

\* The provider's answers during a crawl: every failure, no match, and the
\* bodies of the work the identifier resolves to, with or without authors,
\* with a reference list that is present or null.  A DOI lookup answers with
\* a results list, a lookup by URI with the work itself.
CrawlWork(identifier, authorships, refs_st, refs) ==
    [wid |-> Resolve(identifier), title |-> "A title", abstract |-> "index",
     authorships |-> authorships, topic |-> "dict",
     refs_st |-> refs_st, refs |-> refs]

CrawlShape(identifier) == IF identifier = doi THEN "results" ELSE "work"

CrawlResponses(identifier) ==
    {Failure(k) : k \in FailureKinds}
    \cup {Body("emptyresults", NoWork)}
    \cup {Body(CrawlShape(identifier),
               CrawlWork(identifier, "list", "list", r)) :
            r \in IF identifier = doi THEN SeedRefLists ELSE RefLists}
    \cup {Body(CrawlShape(identifier), CrawlWork(identifier, au, rs, <<>>)) :
            au \in {"empty", "null"}, rs \in {"list", "null"}}

\* All orders list(set) may produce for a set.
Orderings(S) ==
    {q \in [1..Cardinality(S) -> S] : \A i, j \in 1..Cardinality(S) :
                                          i # j => q[i] # q[j]}

CrawlInit ==
    /\ pc = "start"
    /\ initial_data = NoResult
    /\ referenced_ids = <<>>
    /\ processed_ids = {}
    /\ second_level_refs = <<>>
    /\ unique_second_level_refs = <<>>
    /\ idx = 0
    /\ fetched = <<>>
    /\ writes = <<>>
    /\ reported = <<>>
    /\ uncaught = ""
    /\ emitted_refs = {}

\* The crawl is not running.
CrawlIdle ==
    /\ pc = "idle"
    /\ initial_data = NoResult
    /\ referenced_ids = <<>>
    /\ processed_ids = {}
    /\ second_level_refs = <<>>
    /\ unique_second_level_refs = <<>>
    /\ idx = 0
    /\ fetched = <<>>
    /\ writes = <<>>
    /\ reported = <<>>
    /\ uncaught = ""
    /\ emitted_refs = {}

\* An uncaught exception ends the script where it is.
Crash(exc) == pc' = "crashed" /\ uncaught' = exc

\* lines 108-109, 126-127, 145-146: open() and json.dump() are not inside a
\* try block; a write that fails raises OSError.
WriteFailed == Crash("OSError")

\* line 103: "error" in initial_data
SeedFailedIgnored(result) == FALSE
SeedFailed(result) == IsError(result)

\* lines 113-118: referenced_ids and what follows from it.
AfterSeed(result) ==
    IF result.rec.refs_st = "None" \/ result.rec.refs = <<>>
    THEN /\ pc' = "done"
         /\ UNCHANGED <<referenced_ids, processed_ids, idx>>
    ELSE /\ referenced_ids' = result.rec.refs
         /\ processed_ids' = Range(result.rec.refs)
         /\ idx' = 1
         /\ pc' = "dl0"

\* lines 101-118: the seed is fetched; an error is printed and the script
\* exits; otherwise the record is saved and the first-level loop prepared.
FetchSeed ==
    /\ pc = "start"
    /\ \E resp \in CrawlResponses(doi), io_ok \in BOOLEAN :
         LET result == fetch_openalex_data(doi, resp) IN
         /\ fetched' = Append(fetched, doi)
         /\ UNCHANGED <<second_level_refs, unique_second_level_refs,
                        emitted_refs>>
         /\ IF IsRaise(result)
            THEN /\ Crash(result.exc)
                 /\ UNCHANGED <<initial_data, referenced_ids, processed_ids,
                                idx, writes, reported>>
            ELSE /\ initial_data' = result
                 /\ IF SeedFailed(result)
                    THEN /\ reported' = result.error
                         /\ pc' = "aborted"
                         /\ UNCHANGED <<referenced_ids, processed_ids, idx,
                                        writes, uncaught>>
                    ELSE IF ~io_ok
                    THEN /\ WriteFailed
                         /\ UNCHANGED <<referenced_ids, processed_ids, idx,
                                        writes, reported>>
                    ELSE /\ writes' = Append(writes, <<"seed", doi>>)
                         /\ AfterSeed(result)
                         /\ UNCHANGED <<reported, uncaught>>

\* lines 122-131: one iteration of the first-level loop.
FetchFirstLevel ==
    /\ pc = "dl0"
    /\ idx <= Len(referenced_ids)
    /\ \E resp \in CrawlResponses(referenced_ids[idx]), io_ok \in BOOLEAN :
         LET ref_id == referenced_ids[idx]
             ref_data == fetch_openalex_data(ref_id, resp) IN
         /\ fetched' = Append(fetched, ref_id)
         /\ UNCHANGED <<initial_data, referenced_ids, processed_ids,
                        unique_second_level_refs, reported>>
         /\ CASE IsRaise(ref_data) ->
                   /\ Crash(ref_data.exc)
                   /\ UNCHANGED <<second_level_refs, idx, writes,
                                  emitted_refs>>
              [] IsError(ref_data) ->
                   /\ idx' = idx + 1
                   /\ UNCHANGED <<pc, second_level_refs, writes, uncaught,
                                  emitted_refs>>
              [] IsRecord(ref_data) /\ ~io_ok ->
                   /\ WriteFailed
                   /\ UNCHANGED <<second_level_refs, idx, writes,
                                  emitted_refs>>
              [] IsRecord(ref_data) /\ io_ok ->
                   /\ writes' = Append(writes, <<"dl0", ref_id>>)
                   /\ IF ref_data.rec.refs_st = "None"
                      THEN /\ Crash("TypeError")
                           /\ UNCHANGED <<second_level_refs, idx,
                                          emitted_refs>>
                      ELSE /\ second_level_refs' =
                                 second_level_refs \o ref_data.rec.refs
                           /\ emitted_refs' =
                                 emitted_refs \cup Range(ref_data.rec.refs)
                           /\ idx' = idx + 1
                           /\ UNCHANGED <<pc, uncaught>>

\* line 137: list(set(second_level_refs) - processed_ids)
UniqueSecondLevel(refs, processed) == Range(refs) \ processed

\* lines 133-138: after the first-level loop, the second-level frontier.
\* second_level_refs is not read after line 137: the model forgets it there.
StartSecondLevel ==
    /\ pc = "dl0"
    /\ idx > Len(referenced_ids)
    /\ \E order \in Orderings(UniqueSecondLevel(second_level_refs,
                                                processed_ids)) :
         /\ unique_second_level_refs' = order
         /\ IF second_level_refs # <<>> /\ order # <<>>
            THEN pc' = "dl1" /\ idx' = 1
            ELSE pc' = "done" /\ UNCHANGED idx
    /\ second_level_refs' = <<>>
    /\ UNCHANGED <<initial_data, referenced_ids, processed_ids,
                   fetched, writes, reported, uncaught, emitted_refs>>

\* lines 141 and 151-157: after iteration k of n the loop goes on, or it is
\* over and the script ends.
AfterIterationNeverOver(k, n) == "dl1"
AfterIteration(k, n) == IF k = n THEN "done" ELSE "dl1"

\* lines 141-150: one iteration of the second-level loop; after the last
\* one the script ends (lines 151-157).
FetchSecondLevel ==
    /\ pc = "dl1"
    /\ idx <= Len(unique_second_level_refs)
    /\ \E resp \in CrawlResponses(unique_second_level_refs[idx]),
          io_ok \in BOOLEAN :
         LET ref_id == unique_second_level_refs[idx]
             ref_data == fetch_openalex_data(ref_id, resp)
             next_pc == AfterIteration(idx, Len(unique_second_level_refs)) IN
         /\ fetched' = Append(fetched, ref_id)
         /\ UNCHANGED <<initial_data, referenced_ids, second_level_refs,
                        unique_second_level_refs, reported, emitted_refs>>
         /\ CASE IsRaise(ref_data) ->
                   /\ Crash(ref_data.exc)
                   /\ UNCHANGED <<processed_ids, idx, writes>>
              [] IsError(ref_data) ->
                   /\ idx' = idx + 1
                   /\ pc' = next_pc
                   /\ UNCHANGED <<processed_ids, writes, uncaught>>
              [] IsRecord(ref_data) /\ ~io_ok ->
                   /\ WriteFailed
                   /\ UNCHANGED <<processed_ids, idx, writes>>
              [] IsRecord(ref_data) /\ io_ok ->
                   /\ writes' = Append(writes, <<"dl1", ref_id>>)
                   /\ processed_ids' = processed_ids \cup {ref_id}
                   /\ idx' = idx + 1
                   /\ pc' = next_pc
                   /\ UNCHANGED uncaught

(***************************************************************************)
(* The batch fetch scheduler: openalex.py, _fetch_openalex_data_batch,     *)
(* lines 68-80.                                                            *)
(*   identifiers    the input list                                         *)
(*   i              the loop variable of line 75 (0, 5, 10, ...)           *)
(*   bpc            "loop" (at line 75), "gather" (awaiting line 71),      *)
(*                  "returned" (line 80)                                   *)
(*   inflight       the positions (1-based) whose fetch_single is          *)
(*                  suspended in its GET                                   *)
(*   batch_results  the result list asyncio.gather is filling, one slot    *)
(*                  per awaitable of the batch                             *)
(*   results        the list of line 74                                    *)
(*   gets           per position, the number of GETs issued for it         *)
(*   settled        per position, the result its fetch_single returned     *)
(***************************************************************************)
VARIABLES identifiers, i, bpc, inflight, batch_results, results, gets, settled

batchVars == <<identifiers, i, bpc, inflight, batch_results, results, gets,
               settled>>

\* The longest input list.
MaxIdentifiers == 6

\* openalex.py lines 75-76: range(0, len(identifiers), 5), identifiers[i:i + 5]
BatchSize == 5

\* The identifiers a batch is asked for: the DOI and the URI of one work.
BatchIdentifiers == {doi, 1}

\* The provider's answers during a batch: a timeout, a transport error, a
\* bad status, no match, or the work.
BatchResponses(identifier) ==
    {Failure("timeout"), Failure("transport"), Failure("badstatus"),
     Body("noresults", NoWork),
     Body(CrawlShape(identifier),
          CrawlWork(identifier, "list", "list", <<>>))}

Min(a, b) == IF a < b THEN a ELSE b

\* line 76: the positions of identifiers[i:i + 5]
BatchPositions(n, from) == (from + 1)..Min(from + BatchSize, n)

BatchInit ==
    /\ identifiers \in UNION {[1..n -> BatchIdentifiers] :
                                n \in 0..MaxIdentifiers}
    /\ i = 0
    /\ bpc = "loop"
    /\ inflight = {}
    /\ batch_results = <<>>
    /\ results = <<>>
    /\ gets = [k \in 1..Len(identifiers) |-> 0]
    /\ settled = [k \in 1..Len(identifiers) |-> NoResult]

\* No batch fetch is running.
BatchIdle ==
    /\ identifiers = <<>>
    /\ i = 0
    /\ bpc = "idle"
    /\ inflight = {}
    /\ batch_results = <<>>
    /\ results = <<>>
    /\ gets = <<>>
    /\ settled = <<>>

\* lines 75-77 and 69-71: the next batch is cut, one fetch_single per
\* identifier is created and asyncio.gather starts them all; each runs to
\* its GET and suspends there.
StartBatch ==
    /\ bpc = "loop"
    /\ i < Len(identifiers)
    /\ LET batch == BatchPositions(Len(identifiers), i) IN
         /\ inflight' = inflight \cup batch
         /\ batch_results' = [k \in 1..Cardinality(batch) |-> NoResult]
         /\ gets' = [k \in DOMAIN gets |->
                        IF k \in batch THEN gets[k] + 1 ELSE gets[k]]
    /\ bpc' = "gather"
    /\ UNCHANGED <<identifiers, i, results, settled>>

\* asyncio.gather: the result of the awaitable at position slot of its
\* argument list goes to position slot of its result list.
GatherPutInCompletionOrder(res, slot, result) ==
    LET free == {k \in 1..Len(res) : res[k] = NoResult}
        first == CHOOSE k \in free : \A m \in free : k <= m
    IN [res EXCEPT ![first] = result]
GatherPut(res, slot, result) == [res EXCEPT ![slot] = result]

\* asyncio.gather(return_exceptions=True), line 71: a fetch that has settled
\* leaves its siblings running, whatever its result.
StillRunningCancelOnError(running, k, result) ==
    IF IsRecord(result) THEN running \ {k} ELSE {}
StillRunning(running, k, result) == running \ {k}

\* lines 19-66: the GET of one fetch_single completes, in any order among
\* those in flight, and the coroutine runs to its return.
Settle(k) ==
    /\ bpc = "gather"
    /\ k \in inflight
    /\ \E resp \in BatchResponses(identifiers[k]) :
         LET result == fetch_single(identifiers[k], resp) IN
         /\ batch_results' = GatherPut(batch_results, k - i, result)
         /\ settled' = [settled EXCEPT ![k] = result]
         /\ inflight' = StillRunning(inflight, k, result)
    /\ UNCHANGED <<identifiers, i, bpc, results, gets>>

\* line 71: await asyncio.gather(...) resumes when no awaitable is pending.
GatherDoneEarly(running) == TRUE
GatherDone(running) == running = {}

\* lines 77-78 and the step of line 75: the batch's results are appended.
CollectBatch ==
    /\ bpc = "gather"
    /\ GatherDone(inflight)
    /\ results' = results \o batch_results
    /\ i' = i + BatchSize
    /\ bpc' = "loop"
    /\ UNCHANGED <<identifiers, inflight, batch_results, gets, settled>>

\* line 80
ReturnResults ==
    /\ bpc = "loop"
    /\ i >= Len(identifiers)
    /\ bpc' = "returned"
    /\ UNCHANGED <<identifiers, i, inflight, batch_results, results, gets,
                   settled>>

(***************************************************************************)
(* The fetchers applied to one provider answer: biblio-bridge.py           *)
(* fetch_openalex_data and openalex.py fetch_single as functions.          *)
(*   f_identifier, f_resp   the identifier and the provider's answer       *)
(*   sync_result            what fetch_openalex_data returned or raised    *)
(*   async_result           what fetch_single returned or raised           *)
(***************************************************************************)
VARIABLES f_identifier, f_resp, sync_result, async_result

fetchVars == <<f_identifier, f_resp, sync_result, async_result>>

FetchInit ==
    /\ f_identifier \in Identifiers
    /\ f_resp \in {r \in Responses :
                     r.work = NoWork \/ r.work.wid = Resolve(f_identifier)}
    /\ sync_result = NoResult
    /\ async_result = NoResult

\* No fetcher is being exercised.
FetchIdle ==
    /\ f_identifier = doi
    /\ f_resp = Failure("idle")
    /\ sync_result = NoResult
    /\ async_result = NoResult

CallSync ==
    /\ f_resp.kind # "idle"
    /\ sync_result = NoResult
    /\ sync_result' = fetch_openalex_data(f_identifier, f_resp)
    /\ UNCHANGED <<f_identifier, f_resp, async_result>>

CallAsync ==
    /\ f_resp.kind # "idle"
    /\ async_result = NoResult
    /\ async_result' = fetch_single(f_identifier, f_resp)
    /\ UNCHANGED <<f_identifier, f_resp, sync_result>>

(***************************************************************************)
(* The similarity network builder: context_extract.py, process_json_files  *)
(* (lines 54-124) and compute_similarity_matrix (lines 45-52).             *)
(*                                                                         *)
(* A file is <<dir, n>>: the file W<n>.json of directory dir.  A node id   *)
(* is <<"uri", n>> (the id of work n), <<"json", n>> (the basename         *)
(* W<n>.json) ; an edge endpoint is <<"stem", n>> (the basename without    *)
(* ".json").  A text is the set of terms the vectorizer keeps of it.       *)
(*   dl0_exists, dl1_exists, include_deeper_levels   the inputs            *)
(*   dl0_names, dl1_names   the names os.listdir returns for each          *)
(*   npc          "start", "load" (the loop of line 78), "similarity"      *)
(*                (line 94), "save" (line 117), "returned", "crashed"      *)
(*   all_files, works, texts, edges, network   the variables of these      *)
(*                names; works is the dict in insertion order              *)
(*   loaded       the number of files the loop of line 78 has handled      *)
(*   matrix_size  the size of similarity_matrix                            *)
(*   output       what output_file holds                                   *)
(*   ret          what process_json_files returned                         *)
(*   text_keys    per text, the key of works its record was stored under   *)
(*   text_files   per text, the position in all_files of the file it was   *)
(*                read from                                                *)
(***************************************************************************)
VARIABLES dl0_exists, dl1_exists, include_deeper_levels, dl0_names,
          dl1_names, npc, all_files, works, texts, loaded, matrix_size,
          edges, network, output, ret, text_keys, text_files

netVars == <<dl0_exists, dl1_exists, include_deeper_levels, dl0_names,
             dl1_names, npc, all_files, works, texts, loaded, matrix_size,
             edges, network, output, ret, text_keys, text_files>>

\* The most files the two directories hold together.
MaxFiles == 3
\* The number of distinct work ids the files carry.
MaxFileIds == 2

\* The terms the vectorizer keeps of a text: none (only stop words), or one
\* of two words.
TextTerms == {{}, {"fish"}, {"stock"}}

\* What a file holds: unreadable or not JSON ("bad"), or a record with an
\* id (0: no "id" key) and a text.
BadFile == [st |-> "bad", id |-> 0, terms |-> {}]
FileContents ==
    {BadFile} \cup {[st |-> "ok", id |-> n, terms |-> t] :
                      n \in 0..MaxFileIds, t \in TextTerms}

\* The names of a listing in ascending order.
Ascending(S) ==
    CHOOSE f \in [1..Cardinality(S) -> S] :
        \A a, b \in 1..Cardinality(S) : a < b => f[a] < f[b]

NoNetwork == [nodes |-> <<>>, edges |-> <<>>]

\* dl0 holds the files W1..Wk; dl1 holds any files, also of the same names.
NetInit ==
    /\ dl0_exists \in BOOLEAN
    /\ dl1_exists \in BOOLEAN
    /\ include_deeper_levels \in BOOLEAN
    /\ dl0_names \in {1..k : k \in 0..MaxFiles}
    /\ dl1_names \in SUBSET (1..MaxFiles)
    /\ Cardinality(dl0_names) + Cardinality(dl1_names) <= MaxFiles
    /\ dl0_exists \/ dl0_names = {}
    /\ dl1_exists \/ dl1_names = {}
    /\ npc = "start"
    /\ all_files = <<>>
    /\ works = <<>>
    /\ texts = <<>>
    /\ loaded = 0
    /\ matrix_size = 0
    /\ edges = <<>>
    /\ network = NoNetwork
    /\ output = NoNetwork
    /\ ret = <<>>
    /\ text_keys = <<>>
    /\ text_files = <<>>

\* The builder is not running.
NetIdle ==
    /\ dl0_exists = FALSE
    /\ dl1_exists = FALSE
    /\ include_deeper_levels = FALSE
    /\ dl0_names = {}
    /\ dl1_names = {}
    /\ npc = "idle"
    /\ all_files = <<>>
    /\ works = <<>>
    /\ texts = <<>>
    /\ loaded = 0
    /\ matrix_size = 0
    /\ edges = <<>>
    /\ network = NoNetwork
    /\ output = NoNetwork
    /\ ret = <<>>
    /\ text_keys = <<>>
    /\ text_files = <<>>

\* line 60: dl1 is read only when asked for and present.
UseDl1 == include_deeper_levels /\ dl1_exists

\* lines 67-69
CollectedFiles ==
    [k \in 1..Cardinality(dl0_names) |-> <<"dl0", Ascending(dl0_names)[k]>>]
    \o (IF UseDl1
        THEN [k \in 1..Cardinality(dl1_names) |->
                 <<"dl1", Ascending(dl1_names)[k]>>]
        ELSE <<>>)

\* lines 59-73: the directories are listed; a missing dl0 or no file at all
\* is returned as an error.
CollectFiles ==
    /\ npc = "start"
    /\ IF ~dl0_exists
       THEN /\ ret' = <<"error", "Directory does not exist", "dl0">>
            /\ npc' = "returned"
            /\ UNCHANGED all_files
       ELSE /\ all_files' = CollectedFiles
            /\ IF CollectedFiles = <<>>
               THEN /\ ret' = <<"error", "No JSON files found in", "dl0">>
                    /\ npc' = "returned"
               ELSE /\ npc' = "load"
                    /\ UNCHANGED ret
    /\ UNCHANGED <<dl0_exists, dl1_exists, include_deeper_levels, dl0_names,
                   dl1_names, works, texts, loaded, matrix_size, edges,
                   network, output, text_keys, text_files>>

\* works[key] = value of a dict kept in insertion order.
DictPut(dict, key, title) ==
    IF \E k \in 1..Len(dict) : dict[k].id = key
    THEN [k \in 1..Len(dict) |->
             IF dict[k].id = key THEN [id |-> key, title |-> title]
             ELSE dict[k]]
    ELSE Append(dict, [id |-> key, title |-> title])

\* line 82: data.get("id", os.path.basename(file_path))
WorkKey(file, content) ==
    IF content.id = 0 THEN <<"json", file[2]>> ELSE <<"uri", content.id>>

\* lines 78-91: one iteration of the loading loop, on what the file holds.
LoadFile ==
    /\ npc = "load"
    /\ loaded < Len(all_files)
    /\ \E content \in FileContents :
         LET file == all_files[loaded + 1] IN
         IF content.st = "ok"
         THEN /\ works' = DictPut(works, WorkKey(file, content), "A title")
              /\ texts' = Append(texts, content.terms)
              /\ text_keys' = Append(text_keys, WorkKey(file, content))
              /\ text_files' = Append(text_files, loaded + 1)
         ELSE /\ works' = DictPut(works, <<"json", file[2]>>, "Error")
              /\ UNCHANGED <<texts, text_keys, text_files>>
    /\ loaded' = loaded + 1
    /\ npc' = IF loaded + 1 = Len(all_files) THEN "similarity" ELSE "load"
    /\ UNCHANGED <<dl0_exists, dl1_exists, include_deeper_levels, dl0_names,
                   dl1_names, all_files, matrix_size, edges, network, output,
                   ret>>

\* cosine_similarity of two TF-IDF vectors, as the number of terms the two
\* texts share: the weights of a TF-IDF vector are positive, so the cosine
\* is positive exactly when the texts share a term.
Similarity(t1, t2) == Cardinality(t1 \cap t2)

\* lines 47-48: fewer than two texts give an empty matrix.
TooFewTextsOne(txts) == Len(txts) < 1
TooFewTexts(txts) == Len(txts) < 2

\* line 50: fit_transform raises ValueError on an empty vocabulary.
EmptyVocabulary(txts) == \A k \in 1..Len(txts) : txts[k] = {}

\* line 103: similarity > 0
EmitEdge(similarity) == similarity > 0

\* lines 104-108
Edge(files, txts, a, b) ==
    [source |-> <<"stem", files[a][2]>>, target |-> <<"stem", files[b][2]>>,
     weight |-> Similarity(txts[a], txts[b])]

\* lines 100-108: the pairs a < b in loop order, for n files.
RECURSIVE EdgesFrom(_, _, _, _, _)
EdgesFrom(files, txts, n, a, b) ==
    IF a > n THEN <<>>
    ELSE IF b > n THEN EdgesFrom(files, txts, n, a + 1, a + 2)
    ELSE (IF EmitEdge(Similarity(txts[a], txts[b]))
          THEN <<Edge(files, txts, a, b)>> ELSE <<>>)
         \o EdgesFrom(files, txts, n, a, b + 1)

\* lines 94-108: the similarity matrix and the edges.  The matrix has one
\* row per text and the loops run over the files: with more files than
\* texts similarity_matrix[i, j] raises IndexError.
BuildEdges ==
    /\ npc = "similarity"
    /\ IF TooFewTexts(texts)
       THEN /\ matrix_size' = 0
            /\ edges' = <<>>
            /\ npc' = "save"
       ELSE IF EmptyVocabulary(texts)
       THEN /\ npc' = "crashed"
            /\ UNCHANGED <<matrix_size, edges>>
       ELSE /\ matrix_size' = Len(texts) * Len(texts)
            /\ IF Len(all_files) > Len(texts)
               THEN /\ npc' = "crashed"
                    /\ UNCHANGED edges
               ELSE /\ edges' = EdgesFrom(all_files, texts, Len(all_files),
                                          1, 2)
                    /\ npc' = "save"
    /\ UNCHANGED <<dl0_exists, dl1_exists, include_deeper_levels, dl0_names,
                   dl1_names, all_files, works, texts, loaded, network,
                   output, ret, text_keys, text_files>>

\* lines 111-124: the network is assembled and written; a failed write is
\* returned as an error.
SaveNetwork ==
    /\ npc = "save"
    /\ network' = [nodes |-> works, edges |-> edges]
    /\ \E io_ok \in BOOLEAN :
         IF io_ok
         THEN /\ output' = network'
              /\ ret' = <<"status", "Network results saved to", "output_file">>
         ELSE /\ ret' = <<"error", "Failed to save results", "output_file">>
              /\ UNCHANGED output
    /\ npc' = "returned"
    /\ UNCHANGED <<dl0_exists, dl1_exists, include_deeper_levels, dl0_names,
                   dl1_names, all_files, works, texts, loaded, matrix_size,
                   edges, text_keys, text_files>>

(***************************************************************************)
(* The abstract rebuilt from the inverted index: biblio-bridge.py lines    *)
(* 37-47 and openalex.py lines 29-36.                                      *)
(*                                                                         *)
(* An index is the sequence, in key order, of its entries [word,           *)
(* positions].  A text is the sequence of its words: " ".join(words) is    *)
(* the text whose words are words, the words of the model holding no       *)
(* space.  No word of the model holds a dash variant or <scp> markup, on   *)
(* which lines 39 and 43 of openalex.py would act.                         *)
(*   abstract_index   the value of "abstract_inverted_index"               *)
(*   sync_abstract    abstract_text of biblio-bridge.py, <<>> before the   *)
(*                    call                                                 *)
(*   async_abstract   abstract_text of openalex.py, <<>> before the call   *)
(***************************************************************************)
VARIABLES abstract_index, sync_abstract, async_abstract

absVars == <<abstract_index, sync_abstract, async_abstract>>

\* The number of positions of the longest text.
MaxPositions == 3

IndexWords == {"Abstract", "fish", "stock"}

\* str.lower()
Lower(word) == IF word = "Abstract" THEN "abstract" ELSE word

\* The order of Python's strings: "Abstract" < "fish" < "stock".
WordRank(word) ==
    CASE word = "Abstract" -> 1
      [] word = "fish" -> 2
      [] OTHER -> 3

\* The text "No abstract available".
NoAbstractAvailable == <<"No", "abstract", "available">>

\* A position holds a word or nothing ("").
Slots == [0..(MaxPositions - 1) -> IndexWords \cup {""}]

\* The index of the words at the slots, its keys in the order keys.
IndexOf(slots, keys) ==
    [k \in 1..Len(keys) |->
        [word |-> keys[k],
         positions |-> Ascending({p \in DOMAIN slots : slots[p] = keys[k]})]]

\* Every inverted index of up to MaxPositions positions, in every key order.
Indexes ==
    UNION {{IndexOf(slots, keys) :
              keys \in Orderings({slots[p] : p \in DOMAIN slots} \ {""})} :
           slots \in Slots}

\* lines 40-42 (openalex.py line 31): the (pos, word) pairs, in the
\* iteration order of the index.
RECURSIVE WordsWithPositions(_)
WordsWithPositions(index) ==
    IF index = <<>> THEN <<>>
    ELSE [k \in 1..Len(Head(index).positions) |->
             <<Head(index).positions[k], Head(index).word>>]
         \o WordsWithPositions(Tail(index))

\* The comparison of two (pos, word) tuples.
PairBefore(a, b) ==
    a[1] < b[1] \/ (a[1] = b[1] /\ WordRank(a[2]) < WordRank(b[2]))

RECURSIVE InsertPair(_, _)
InsertPair(sorted, pair) ==
    IF sorted = <<>> THEN <<pair>>
    ELSE IF PairBefore(pair, Head(sorted)) THEN <<pair>> \o sorted
    ELSE <<Head(sorted)>> \o InsertPair(Tail(sorted), pair)

\* line 43 (openalex.py line 32): words_with_positions.sort()
RECURSIVE SortPairs(_)
SortPairs(pairs) ==
    IF pairs = <<>> THEN <<>>
    ELSE InsertPair(SortPairs(Tail(pairs)), Head(pairs))

\* line 44: [word for pos, word in words_with_positions]
WordsOf(pairs) == [k \in 1..Len(pairs) |-> pairs[k][2]]

\* " ".join(words)
Join(words) == words

\* biblio-bridge.py lines 38-45, for an index that is not None.
SyncRebuild(index) ==
    LET words == WordsOf(SortPairs(WordsWithPositions(index)))
    IN IF words # <<>> THEN Join(words) ELSE NoAbstractAvailable

\* openalex.py line 33: if word.lower() != "abstract"
KeptWord(word) == Lower(word) # "abstract"

\* openalex.py lines 30-36.
AsyncRebuild(index) ==
    IF index = <<>> THEN NoAbstractAvailable
    ELSE LET words == SelectSeq(WordsOf(SortPairs(WordsWithPositions(index))),
                                KeptWord)
         IN IF words # <<>> THEN Join(words) ELSE NoAbstractAvailable

AbsInit ==
    /\ abstract_index \in Indexes
    /\ sync_abstract = <<>>
    /\ async_abstract = <<>>

\* No abstract is being rebuilt.
AbsIdle ==
    /\ abstract_index = <<>>
    /\ sync_abstract = <<>>
    /\ async_abstract = <<>>

RebuildSync ==
    /\ sync_abstract = <<>>
    /\ sync_abstract' = SyncRebuild(abstract_index)
    /\ UNCHANGED <<abstract_index, async_abstract>>

RebuildAsync ==
    /\ async_abstract = <<>>
    /\ async_abstract' = AsyncRebuild(abstract_index)
    /\ UNCHANGED <<abstract_index, sync_abstract>>

(***************************************************************************)
(* The four topic levels: biblio-bridge.py lines 57-85 and openalex.py     *)
(* lines 51-62.                                                            *)
(*   primary_topic   the value of "primary_topic": st is "missing", "null" *)
(*                   or "dict"; name is the state of its "display_name"    *)
(*                   ("missing", "null", "named"); subfield, field and     *)
(*                   domain are the states of these keys: "missing",       *)
(*                   "null", a dict without "display_name" ("noname"),     *)
(*                   with a null one ("nullname") or with one ("named")    *)
(*   sync_topics     the four topic fields of biblio-bridge.py's record    *)
(*   async_topics    the four topic fields of openalex.py's record, or the *)
(*                   error result of line 66                               *)
(***************************************************************************)
VARIABLES primary_topic, sync_topics, async_topics

topicVars == <<primary_topic, sync_topics, async_topics>>

NameStates == {"missing", "null", "named"}
LevelStates == {"missing", "null", "noname", "nullname", "named"}

NoPrimaryTopic(st) ==
    [st |-> st, name |-> "missing", subfield |-> "missing",
     field |-> "missing", domain |-> "missing"]

PrimaryTopics ==
    {NoPrimaryTopic("missing"), NoPrimaryTopic("null")}
    \cup {[st |-> "dict", name |-> nm, subfield |-> sf, field |-> fd,
           domain |-> dm] :
             nm \in NameStates, sf \in LevelStates, fd \in LevelStates,
             dm \in LevelStates}

\* The sentinel of a level, and the name the provider gives it.
UnknownLevel(level) ==
    CASE level = "primary" -> "Unknown topic"
      [] level = "subfield" -> "Unknown subfield"
      [] level = "field" -> "Unknown field"
      [] OTHER -> "Unknown domain"

ProviderName(level) ==
    CASE level = "primary" -> "Fisheries"
      [] level = "subfield" -> "Aquatic Science"
      [] level = "field" -> "Agricultural and Biological Sciences"
      [] OTHER -> "Life Sciences"

Topics(tag, primary, subfield, field, domain) ==
    [tag |-> tag, primary_topic |-> primary, subfield_topic |-> subfield,
     field_topic |-> field, domain_topic |-> domain]

NoTopics == Topics("none", "", "", "", "")

\* openalex.py line 66: the fetch is an error result.
TopicsError == Topics("error", "", "", "", "")

\* biblio-bridge.py lines 80-83: the four sentinels.
UnknownTopics ==
    Topics("topics", UnknownLevel("primary"), UnknownLevel("subfield"),
           UnknownLevel("field"), UnknownLevel("domain"))

\* d.get("display_name", sentinel): the default is used only when the key
\* is absent; a null name is returned as None.
DisplayName(st, level) ==
    CASE st = "named" -> ProviderName(level)
      [] st \in {"null", "nullname"} -> "None"
      [] OTHER -> UnknownLevel(level)

\* primary_topic.get(level, {}).get(...) raises AttributeError when the
\* level is null: the default {} is used only when the key is absent.
LevelRaises(topic) ==
    topic.subfield = "null" \/ topic.field = "null" \/ topic.domain = "null"

\* lines 65-68, for a primary_topic that is a dict with no null level.
TopicLevels(topic) ==
    Topics("topics", DisplayName(topic.name, "primary"),
           DisplayName(topic.subfield, "subfield"),
           DisplayName(topic.field, "field"),
           DisplayName(topic.domain, "domain"))

\* biblio-bridge.py lines 57-85: an AttributeError raised by any of lines
\* 65-68 is caught at line 71 and the four sentinels are used.
SyncTopicLevels(topic) ==
    CASE topic.st = "missing" -> UnknownTopics
      [] topic.st = "null" -> UnknownTopics
      [] LevelRaises(topic) -> UnknownTopics
      [] OTHER -> TopicLevels(topic)

\* openalex.py lines 51-62: a missing or null primary_topic is {}; an
\* AttributeError is caught at line 65 and the fetch returns an error.
AsyncTopicLevels(topic) ==
    CASE topic.st \in {"missing", "null"} -> UnknownTopics
      [] LevelRaises(topic) -> TopicsError
      [] OTHER -> TopicLevels(topic)

TopicInit ==
    /\ primary_topic \in PrimaryTopics
    /\ sync_topics = NoTopics
    /\ async_topics = NoTopics

\* No topic is being extracted.
TopicIdle ==
    /\ primary_topic = NoPrimaryTopic("idle")
    /\ sync_topics = NoTopics
    /\ async_topics = NoTopics

ExtractSyncTopics ==
    /\ primary_topic.st # "idle"
    /\ sync_topics = NoTopics
    /\ sync_topics' = SyncTopicLevels(primary_topic)
    /\ UNCHANGED <<primary_topic, async_topics>>

ExtractAsyncTopics ==
    /\ primary_topic.st # "idle"
    /\ async_topics = NoTopics
    /\ async_topics' = AsyncTopicLevels(primary_topic)
    /\ UNCHANGED <<primary_topic, sync_topics>>

(***************************************************************************)
(* The key-term extractor: context_extract.py, extract_key_terms, lines    *)
(* 29-40.                                                                  *)
(*   text        the argument: kind is "empty" (""), "sentinel" ("No       *)
(*               abstract available") or "text"; terms is the list of      *)
(*               line 35, the tokens the annotation backend retains of it  *)
(*   n_terms     the argument n                                            *)
(*   kpc         "call", "returned"                                        *)
(*   key_terms   the list returned                                         *)
(***************************************************************************)
VARIABLES text, n_terms, kpc, key_terms

termVars == <<text, n_terms, kpc, key_terms>>

\* The longest list of retained tokens.
MaxTerms == 4
\* The largest n.
MaxN == 3

Tokens == {"fish", "stock", "msy"}

\* The tokens retained of "No abstract available".
SentinelTerms == <<"abstract", "available">>

Texts ==
    {[kind |-> "empty", terms |-> <<>>],
     [kind |-> "sentinel", terms |-> SentinelTerms]}
    \cup {[kind |-> "text", terms |-> t] :
            t \in UNION {[1..m -> Tokens] : m \in 0..MaxTerms}}

\* line 38: term_freq[term] += 1, on a dict kept in insertion order.
Increment(term_freq, term) ==
    IF \E k \in 1..Len(term_freq) : term_freq[k].term = term
    THEN [k \in 1..Len(term_freq) |->
             IF term_freq[k].term = term
             THEN [term |-> term, freq |-> term_freq[k].freq + 1]
             ELSE term_freq[k]]
    ELSE Append(term_freq, [term |-> term, freq |-> 1])

\* lines 36-38
RECURSIVE CountTerms(_, _)
CountTerms(term_freq, terms) ==
    IF terms = <<>> THEN term_freq
    ELSE CountTerms(Increment(term_freq, Head(terms)), Tail(terms))

\* line 39, key=lambda x: x[1], reverse=True: an item goes after the items
\* of a greater frequency; sorted() is stable, also with reverse=True.
GoesAfterTies(item, other) == other.freq >= item.freq
GoesAfter(item, other) == other.freq > item.freq

RECURSIVE InsertItem(_, _)
InsertItem(item, sorted) ==
    IF sorted = <<>> THEN <<item>>
    ELSE IF GoesAfter(item, Head(sorted))
    THEN <<Head(sorted)>> \o InsertItem(item, Tail(sorted))
    ELSE <<item>> \o sorted

\* line 39: sorted(term_freq.items(), ...)
RECURSIVE SortedTerms(_)
SortedTerms(items) ==
    IF items = <<>> THEN <<>>
    ELSE InsertItem(Head(items), SortedTerms(Tail(items)))

\* line 40: [term for term, _ in sorted_terms[:n]], n >= 0
TopTerms(sorted, n) ==
    [k \in 1..Min(n, Len(sorted)) |-> sorted[k].term]

\* line 31: not text or text == "No abstract available"
NoText(t) == t.kind \in {"empty", "sentinel"}

\* lines 29-40
extract_key_terms(t, n) ==
    IF NoText(t) THEN <<>>
    ELSE TopTerms(SortedTerms(CountTerms(<<>>, t.terms)), n)

TermInit ==
    /\ text \in Texts
    /\ n_terms \in 0..MaxN
    /\ kpc = "call"
    /\ key_terms = <<>>

\* The extractor is not being called.
TermIdle ==
    /\ text = [kind |-> "empty", terms |-> <<>>]
    /\ n_terms = 0
    /\ kpc = "idle"
    /\ key_terms = <<>>

ExtractKeyTerms ==
    /\ kpc = "call"
    /\ key_terms' = extract_key_terms(text, n_terms)
    /\ kpc' = "returned"
    /\ UNCHANGED <<text, n_terms>>

(***************************************************************************)
(* The specifications: one per component, the others idle.                 *)
(***************************************************************************)
vars == <<crawlVars, batchVars, fetchVars, netVars, absVars, topicVars,
          termVars>>

CrawlStep ==
    \/ FetchSeed /\ UNCHANGED <<batchVars, fetchVars, netVars, absVars,
                                topicVars, termVars>>
    \/ FetchFirstLevel /\ UNCHANGED <<batchVars, fetchVars, netVars, absVars,
                                      topicVars, termVars>>
    \/ StartSecondLevel /\ UNCHANGED <<batchVars, fetchVars, netVars,
                                       absVars, topicVars, termVars>>
    \/ FetchSecondLevel /\ UNCHANGED <<batchVars, fetchVars, netVars,
                                       absVars, topicVars, termVars>>

BatchStep ==
    \/ StartBatch /\ UNCHANGED <<crawlVars, fetchVars, netVars, absVars,
                                 topicVars, termVars>>
    \/ (\E k \in 1..MaxIdentifiers : Settle(k))
          /\ UNCHANGED <<crawlVars, fetchVars, netVars, absVars, topicVars,
                         termVars>>
    \/ CollectBatch /\ UNCHANGED <<crawlVars, fetchVars, netVars, absVars,
                                   topicVars, termVars>>
    \/ ReturnResults /\ UNCHANGED <<crawlVars, fetchVars, netVars, absVars,
                                    topicVars, termVars>>

FetchStep ==
    \/ CallSync /\ UNCHANGED <<crawlVars, batchVars, netVars, absVars,
                               topicVars, termVars>>
    \/ CallAsync /\ UNCHANGED <<crawlVars, batchVars, netVars, absVars,
                                topicVars, termVars>>

NetStep ==
    \/ CollectFiles /\ UNCHANGED <<crawlVars, batchVars, fetchVars, absVars,
                                   topicVars, termVars>>
    \/ LoadFile /\ UNCHANGED <<crawlVars, batchVars, fetchVars, absVars,
                               topicVars, termVars>>
    \/ BuildEdges /\ UNCHANGED <<crawlVars, batchVars, fetchVars, absVars,
                                 topicVars, termVars>>
    \/ SaveNetwork /\ UNCHANGED <<crawlVars, batchVars, fetchVars, absVars,
                                  topicVars, termVars>>

AbsStep ==
    \/ RebuildSync /\ UNCHANGED <<crawlVars, batchVars, fetchVars, netVars,
                                  topicVars, termVars>>
    \/ RebuildAsync /\ UNCHANGED <<crawlVars, batchVars, fetchVars, netVars,
                                   topicVars, termVars>>

TopicStep ==
    \/ ExtractSyncTopics /\ UNCHANGED <<crawlVars, batchVars, fetchVars,
                                        netVars, absVars, termVars>>
    \/ ExtractAsyncTopics /\ UNCHANGED <<crawlVars, batchVars, fetchVars,
                                         netVars, absVars, termVars>>

\* The one action of the extractor; a run that has returned stays there.
TermStep ==
    \/ ExtractKeyTerms /\ UNCHANGED <<crawlVars, batchVars, fetchVars,
                                      netVars, absVars, topicVars>>

InitCrawl ==
    CrawlInit /\ BatchIdle /\ FetchIdle /\ NetIdle /\ AbsIdle /\ TopicIdle
              /\ TermIdle
InitBatch ==
    CrawlIdle /\ BatchInit /\ FetchIdle /\ NetIdle /\ AbsIdle /\ TopicIdle
              /\ TermIdle
InitFetch ==
    CrawlIdle /\ BatchIdle /\ FetchInit /\ NetIdle /\ AbsIdle /\ TopicIdle
              /\ TermIdle
InitNet ==
    CrawlIdle /\ BatchIdle /\ FetchIdle /\ NetInit /\ AbsIdle /\ TopicIdle
              /\ TermIdle
InitAbs ==
    CrawlIdle /\ BatchIdle /\ FetchIdle /\ NetIdle /\ AbsInit /\ TopicIdle
              /\ TermIdle
InitTopic ==
    CrawlIdle /\ BatchIdle /\ FetchIdle /\ NetIdle /\ AbsIdle /\ TopicInit
              /\ TermIdle
InitTerm ==
    CrawlIdle /\ BatchIdle /\ FetchIdle /\ NetIdle /\ AbsIdle /\ TopicIdle
              /\ TermInit

SpecCrawl == InitCrawl /\ [][CrawlStep]_vars
SpecBatch == InitBatch /\ [][BatchStep]_vars
SpecFetch == InitFetch /\ [][FetchStep]_vars
SpecNet == InitNet /\ [][NetStep]_vars
SpecAbs == InitAbs /\ [][AbsStep]_vars
SpecTopic == InitTopic /\ [][TopicStep]_vars
SpecTerm == InitTerm /\ [][TermStep]_vars

(***************************************************************************)
(* The claims.                                                             *)
(***************************************************************************)

\* A result that is data: a record, or an error naming the identifier.
ProperResult(result, identifier) ==
    \/ IsRecord(result)
    \/ IsError(result) /\ result.error[2] = identifier

\* C1: in a crawl run no identifier is fetched more than once, whatever the
\* citation graph (cycles, self-citations, repeated entries of a reference
\* list).
C1_NoIdentifierFetchedTwice ==
    \A a, b \in 1..Len(fetched) : a # b => fetched[a] # fetched[b]

\* C2: the batch fetch returns a list as long as its input in which the
\* result at each position is the result of the fetch of the identifier at
\* that position, whatever the order in which the fetches complete; while a
\* batch is gathered, every fetch that has settled has its result in its
\* own slot.
C2_OrderPreserved ==
    /\ bpc = "gather" =>
         \A k \in BatchPositions(Len(identifiers), i) \ inflight :
             batch_results[k - i] = settled[k]
    /\ bpc = "returned" =>
         /\ Len(results) = Len(identifiers)
         /\ \A k \in 1..Len(identifiers) :
              /\ results[k] = settled[k]
              /\ ProperResult(results[k], identifiers[k])
              /\ IsRecord(results[k]) =>
                    results[k].rec.id = Resolve(identifiers[k])

\* C2 witness: the last fetch of the first batch settled with an error
\* before the first one, which is still in flight, and a record sits in
\* between.
C2_Witness ==
    /\ bpc = "gather"
    /\ i = 0
    /\ Len(identifiers) > BatchSize
    /\ inflight = {1}
    /\ IsError(batch_results[BatchSize])
    /\ IsRecord(batch_results[2])
    /\ identifiers[2] # identifiers[BatchSize]

\* C3: when the fetch of one identifier fails, every other identifier of
\* the batch and of the later batches is still fetched, once, and yields
\* its own result: the returned list holds one result per identifier, none
\* missing, and no fetch is dropped while its batch is gathered.
C3_FailureIsolated ==
    /\ bpc = "gather" =>
         \A k \in BatchPositions(Len(identifiers), i) :
             k \in inflight \/ ProperResult(batch_results[k - i],
                                            identifiers[k])
    /\ bpc = "returned" =>
         /\ Len(results) = Len(identifiers)
         /\ \A k \in 1..Len(identifiers) :
              /\ gets[k] = 1
              /\ ProperResult(results[k], identifiers[k])

\* C3 witness: a batch fetch returned with a failed fetch in the first
\* batch, records before and after it, and a record in the second batch.
C3_Witness ==
    /\ bpc = "returned"
    /\ Len(identifiers) > BatchSize
    /\ IsRecord(results[1])
    /\ IsError(results[2])
    /\ IsRecord(results[3])
    /\ IsRecord(results[BatchSize + 1])

\* C4: if the fetch of the seed returns an error, the crawl reports that
\* error and stops: the seed's GET is the only one issued and nothing is
\* written.
C4_SeedFailureAborts ==
    IsError(initial_data) =>
        /\ pc = "aborted"
        /\ reported = initial_data.error
        /\ fetched = <<doi>>
        /\ writes = <<>>

\* C4 witness: the crawl stopped on a seed error that names the seed.
C4_Witness ==
    /\ pc = "aborted"
    /\ IsError(initial_data)
    /\ reported[2] = doi

\* C5: for every identifier and every provider outcome a fetch returns a
\* work record or an error result naming the identifier; no exception
\* leaves either fetcher.
C5_FetchNeverRaises ==
    /\ sync_result # NoResult => ProperResult(sync_result, f_identifier)
    /\ async_result # NoResult => ProperResult(async_result, f_identifier)

\* The batch a position belongs to.
BatchOf(k) == (k - 1) \div BatchSize

\* C6: no fetch of a batch starts before every fetch of the batches before
\* it has settled, and at most BatchSize fetches are in flight.
C6_BatchesSequential ==
    /\ Cardinality(inflight) <= BatchSize
    /\ \A k \in inflight : k \in BatchPositions(Len(identifiers), i)
    /\ \A a, b \in 1..Len(identifiers) :
         (gets[b] > 0 /\ BatchOf(a) < BatchOf(b)) => settled[a] # NoResult

\* C6 witness: the second batch is in flight, after a first batch of
\* BatchSize fetches of which one failed.
C6_Witness ==
    /\ bpc = "gather"
    /\ i = BatchSize
    /\ inflight # {}
    /\ Len(results) = BatchSize
    /\ \E k \in 1..BatchSize : IsError(results[k])

\* The identifiers a crawl has met: the seed and the two frontiers.
Encountered ==
    {doi} \cup Range(referenced_ids) \cup Range(unique_second_level_refs)

\* C7: when a crawl finishes, the visited set is the set of the distinct
\* identifiers encountered at all depths (stated for the crawls that have a
\* first level: without one the script never creates processed_ids).
C7_VisitedIsEncountered ==
    (pc = "done" /\ referenced_ids # <<>>) => processed_ids = Encountered

\* C8: every edge of the network has a weight above 0 and a source other
\* than its target, and no two edges join the same unordered pair of works.
C8_EdgesWellFormed ==
    /\ \A k \in 1..Len(output.edges) :
         /\ output.edges[k].weight > 0
         /\ output.edges[k].source # output.edges[k].target
    /\ \A k, m \in 1..Len(output.edges) :
         k # m => {output.edges[k].source, output.edges[k].target}
                    # {output.edges[m].source, output.edges[m].target}

\* The builder got past the listing of the files (line 73).
HasFiles == all_files # <<>>

\* The builder has assembled the network (line 111).
Assembled == npc = "returned" /\ ret[2] # "Directory does not exist"
                              /\ ret[2] # "No JSON files found in"

\* C9 as stated: with fewer than 2 texts the matrix and the edge set are
\* empty and the network is still produced.
C9_FewTextsStillNetwork ==
    (npc = "returned" /\ Len(texts) < 2) =>
        /\ matrix_size = 0
        /\ edges = <<>>
        /\ Assembled

\* C9 amended: when at least one record file exists and fewer than 2 of the
\* files are readable, the similarity matrix is empty, the edge set is
\* empty, the builder does not fail on the similarity computation and the
\* network it assembles has no edge and a node for each text; the network
\* is what the output file holds unless the write itself fails.
C9_FewTexts ==
    (HasFiles /\ Len(texts) < 2) =>
        /\ npc # "crashed"
        /\ npc \in {"save", "returned"} => matrix_size = 0 /\ edges = <<>>
        /\ npc = "returned" =>
             /\ network = [nodes |-> works, edges |-> <<>>]
             /\ \A t \in 1..Len(texts) :
                  \E n \in 1..Len(network.nodes) :
                      network.nodes[n].id = text_keys[t]
             /\ ret[1] = "status" => output = network

\* C9 witness: two files, one of them unreadable: one text, no edge, and a
\* saved network of two nodes.
C9_Witness ==
    /\ npc = "returned"
    /\ Len(all_files) = 2
    /\ Len(texts) = 1
    /\ ret[1] = "status"
    /\ Len(output.nodes) = 2
    /\ output.edges = <<>>

\* C10: the network has one node per text handed to the similarity
\* computation, also when two files carry the same work id or a file has no
\* id (stated for the runs in which every file is readable).
C10_OneNodePerText ==
    (npc = "returned" /\ ret[1] = "status" /\ Len(texts) = Len(all_files)) =>
        Len(network.nodes) = Len(texts)

\* A record file exists in an input directory: dl0, and dl1 when the deeper
\* levels are asked for.
RecordFilesExist ==
    dl0_names # {} \/ (include_deeper_levels /\ dl1_names # {})

\* The builder gave up before reading any file (lines 64 and 73).
GaveUp == ret[2] \in {"Directory does not exist", "No JSON files found in"}

\* C11: a missing input directory does not stop the builder, which goes on
\* with the records of the directories that exist; it gives up, with an
\* error that names the directory, only when no record file exists in any
\* input directory.
C11_MissingDirectoryProceeds ==
    npc = "returned" =>
        /\ GaveUp <=> ~RecordFilesExist
        /\ GaveUp => ret[1] = "error" /\ ret[3] = "dl0"

\* C12: a write that fails never ends the crawl: the failure is reported
\* and the remaining identifiers are still fetched.
C12_StorageFailureContinues ==
    ~(pc = "crashed" /\ uncaught = "OSError")

\* The provider answered with a work whose author list is empty.
EmptyAuthorList(resp) ==
    /\ resp.kind = "json"
    /\ resp.shape \in {"work", "results"}
    /\ resp.work.authorships = "empty"

\* C13: the fetch of a work with an empty author list (and a title) returns
\* a work record with an empty authors sequence, not an error result.
C13_EmptyAuthorsKept ==
    (EmptyAuthorList(f_resp) /\ f_resp.work.title # "null") =>
        /\ sync_result # NoResult =>
              IsRecord(sync_result) /\ sync_result.rec.authors = "[]"
        /\ async_result # NoResult =>
              IsRecord(async_result) /\ async_result.rec.authors = "[]"

\* The provider answered with a work that has authors, no abstract
\* (missing, null or empty index) and no title (missing or null).
NoAbstractNoTitle(resp) ==
    /\ resp.kind = "json"
    /\ resp.shape \in {"work", "results"}
    /\ resp.work.authorships = "list"
    /\ resp.work.abstract \in {"missing", "null", "empty"}
    /\ resp.work.title \in {"missing", "null"}

\* The record C15 asks for.
SentinelDefaults(result) ==
    /\ IsRecord(result)
    /\ result.rec.abstract = "No abstract available"
    /\ result.rec.title = "No title available"

\* C15: the fetch of a work with no abstract and no title returns a work
\* record whose abstract is "No abstract available" and whose title is
\* "No title available", never a null or an error result.
C15_SentinelDefaults ==
    NoAbstractNoTitle(f_resp) =>
        /\ sync_result # NoResult => SentinelDefaults(sync_result)
        /\ async_result # NoResult => SentinelDefaults(async_result)

\* The positions an index lists, and the word it lists a position for.
PositionsUsed(index) ==
    UNION {Range(index[k].positions) : k \in 1..Len(index)}

WordAt(index, p) ==
    index[CHOOSE k \in 1..Len(index) : p \in Range(index[k].positions)].word

\* The words of an index by ascending position, one per listed position.
ReadingOrder(index) ==
    LET ps == Ascending(PositionsUsed(index))
    IN [k \in 1..Len(ps) |-> WordAt(index, ps[k])]

\* C14: the rebuilt abstract is the words of the index ordered by ascending
\* position, one word per listed position and none dropped, whatever the
\* order of the keys of the index (an index that lists no position gives
\* "No abstract available").
C14_AbstractInReadingOrder ==
    LET expected == IF ReadingOrder(abstract_index) = <<>>
                    THEN NoAbstractAvailable
                    ELSE ReadingOrder(abstract_index)
    IN /\ sync_abstract # <<>> => sync_abstract = expected
       /\ async_abstract # <<>> => async_abstract = expected

\* The seed in the visited set: the identifier it was asked for and the id
\* of its record, the form in which reference lists name it.
SeedVisited == {doi, Resolve(doi)}

\* C16: the identifiers fetched at depth 1 are those of the seed record's
\* reference list, minus the seed; those fetched at depth 2 are the ones in
\* the reference lists of the records fetched successfully at depth 1,
\* minus the seed and the identifiers fetched at depth 1; a crawl that
\* finishes has fetched the seed and exactly these two frontiers.
C16_FrontierFromSuccesses ==
    /\ referenced_ids # <<>> =>
          Range(referenced_ids) = Range(initial_data.rec.refs) \ SeedVisited
    /\ pc \in {"dl1", "done"} =>
          Range(unique_second_level_refs) =
              emitted_refs \ (SeedVisited \cup Range(referenced_ids))
    /\ pc = "done" =>
          fetched = <<doi>> \o referenced_ids \o unique_second_level_refs

\* The script has ended.
Stopped == pc \in {"done", "aborted", "crashed"}

\* The steps the script has left at most: the levels still to start, each
\* counted longer than any frontier, and the iterations left of the running
\* loop.
LongestLevel == MaxSeedRefs + MaxWorks + 1

LevelsLeft ==
    CASE pc = "start" -> 3
      [] pc = "dl0" -> 2
      [] pc = "dl1" -> 1
      [] OTHER -> 0

Remaining ==
    LevelsLeft * LongestLevel
    + (CASE pc = "dl0" -> Len(referenced_ids) + 1 - idx
         [] pc = "dl1" -> Len(unique_second_level_refs) + 1 - idx
         [] OTHER -> 0)

\* C17 as stated, for the crawls that no uncaught exception ends: a crawl
\* stops nowhere but at Done.
C17_ReachesDone == (~ENABLED CrawlStep) => pc \in {"done", "crashed"}

\* C17 amended: every crawl stops, with or without citation cycles: as long
\* as it is not done, stopped on the seed's error or ended by an uncaught
\* exception it has a step to take, and every step leaves it fewer steps to
\* take; it never issues a fetch beyond the seed, the first-level
\* references and the second-level frontier.
C17_CrawlStops ==
    /\ [](Stopped \/ ENABLED CrawlStep)
    /\ [](Remaining >= 0)
    /\ [][Remaining' < Remaining]_vars
    /\ [](Len(fetched) <= 1 + Len(referenced_ids)
                             + Len(unique_second_level_refs))

\* C17 witness: a crawl is done after fetching, at the second level, the
\* work the seed resolves to (a citation cycle through the seed).
C17_Witness ==
    /\ pc = "done"
    /\ Resolve(doi) \in Range(unique_second_level_refs)
    /\ Len(fetched) = 1 + Len(referenced_ids) + Len(unique_second_level_refs)

\* C18: in a crawl run no identifier is written twice, in one namespace or
\* across the seed file, dl0 and dl1.
C18_WrittenOnce ==
    \A a, b \in 1..Len(writes) : a # b => writes[a][2] # writes[b][2]

\* The value C19 asks for at a level: the provider's name when the level
\* has one, the level's own sentinel otherwise.
ExpectedLevel(topic, st, level) ==
    IF topic.st = "dict" /\ st = "named"
    THEN ProviderName(level) ELSE UnknownLevel(level)

ExpectedTopics(topic) ==
    Topics("topics", ExpectedLevel(topic, topic.name, "primary"),
           ExpectedLevel(topic, topic.subfield, "subfield"),
           ExpectedLevel(topic, topic.field, "field"),
           ExpectedLevel(topic, topic.domain, "domain"))

\* C19: each of the four topic levels is defaulted on its own: an absent or
\* null level yields its sentinel, a present level keeps the provider's
\* name, and the fetch returns a record.
C19_TopicLevelsIndependent ==
    /\ sync_topics # NoTopics => sync_topics = ExpectedTopics(primary_topic)
    /\ async_topics # NoTopics => async_topics = ExpectedTopics(primary_topic)

\* The frequency of a term and the position of its first occurrence.
Count(terms, term) == Cardinality({k \in 1..Len(terms) : terms[k] = term})

FirstOccurrence(terms, term) ==
    CHOOSE k \in 1..Len(terms) :
        terms[k] = term /\ \A m \in 1..(k - 1) : terms[m] # term

\* Term a ranks before term b: it is more frequent, or as frequent and
\* met first.
RanksBefore(terms, a, b) ==
    \/ Count(terms, a) > Count(terms, b)
    \/ /\ Count(terms, a) = Count(terms, b)
       /\ FirstOccurrence(terms, a) < FirstOccurrence(terms, b)

\* C20: the extractor returns the n first terms (all of them when there are
\* fewer) of the ranking by frequency descending, terms of equal frequency
\* in order of first occurrence, each term once; it returns the empty
\* sequence for the empty text and for "No abstract available".
C20_KeyTermsRanked ==
    kpc = "returned" =>
        IF text.kind # "text" THEN key_terms = <<>>
        ELSE /\ Len(key_terms) = Min(n_terms, Cardinality(Range(text.terms)))
             /\ \A k \in 1..Len(key_terms) : key_terms[k] \in Range(text.terms)
             /\ \A a, b \in 1..Len(key_terms) :
                   a < b => RanksBefore(text.terms, key_terms[a], key_terms[b])
             /\ \A k \in 1..Len(key_terms) :
                   \A term \in Range(text.terms) \ Range(key_terms) :
                       RanksBefore(text.terms, key_terms[k], term)

\* C20 witness: two terms returned of three, the second one as frequent as
\* the term left out and met before it, the first one more frequent but
\* met later.
C20_Witness ==
    /\ kpc = "returned"
    /\ text.kind = "text"
    /\ Len(key_terms) = 2
    /\ Cardinality(Range(text.terms)) = 3
    /\ Count(text.terms, key_terms[1]) > Count(text.terms, key_terms[2])
    /\ text.terms[1] = key_terms[2]
    /\ \E term \in Range(text.terms) \ Range(key_terms) :
          Count(text.terms, term) = Count(text.terms, key_terms[2])

\* The ids of the nodes of a network.
NodeIds(net) == {net.nodes[n].id : n \in 1..Len(net.nodes)}

\* C21: in every network the builder writes, the source and the target of
\* every edge are ids of nodes of that network.
C21_EdgeEndpointsAreNodes ==
    \A k \in 1..Len(output.edges) :
        /\ output.edges[k].source \in NodeIds(output)
        /\ output.edges[k].target \in NodeIds(output)

\* The name an edge gives the work of text t: the name of its file without
\* ".json".
StemOf(t) == <<"stem", all_files[text_files[t]][2]>>

\* C22: whatever files fail to load, the builder completes, and the weight
\* of every edge written is the similarity of the texts of the two works
\* its source and target name (stated for the inputs in which some text
\* holds a term the vectorizer keeps).
C22_EdgesAligned ==
    /\ npc = "crashed" => EmptyVocabulary(texts)
    /\ \A k \in 1..Len(output.edges) :
          \E a, b \in 1..Len(texts) :
              /\ a # b
              /\ output.edges[k].source = StemOf(a)
              /\ output.edges[k].target = StemOf(b)
              /\ output.edges[k].weight = Similarity(texts[a], texts[b])

==========================================================================
